---- MODULE Spec2Model ----
(***************************************************************************)
(* Rope passport (src/app.py): the inspection and fall logs of a rope and  *)
(* the status derived from them by compute_status.                         *)
(*                                                                         *)
(* Dates are day numbers.  The two log tables are bags of rows (an SQL     *)
(* table has no order and may hold equal rows).  Every HTTP handler leaves *)
(* its answer in `served`.                                                 *)
(*                                                                         *)
(* Spec     one request at a time, forms carrying the known verdicts and   *)
(*          fall types                                                     *)
(* RawSpec  one request at a time, forms carrying any string               *)
(* ConcSpec a status evaluation whose two queries interleave with the      *)
(*          commits of add_inspection and add_fall                         *)
(***************************************************************************)
EXTENDS Bags, FiniteSets, Integers, Sequences, TLC

VARIABLES today, inspection_logs, fall_logs, served, cs, snapshots

vars == <<today, inspection_logs, fall_logs, served, cs, snapshots>>

(* ---------------- policy thresholds (literals of compute_status) ------- *)

MAJOR_FALL_LIMIT == 1
MINOR_FALL_LIMIT == 3
REINSPECTION_INTERVAL_DAYS == 180

(* ---------------- bounds ----------------------------------------------- *)

\* rows a table holds at most
MaxInspections == 2
MaxFalls == 3

\* rows a table holds at most while a status evaluation interleaves with
\* commits
ConcMaxInspections == 1
ConcMaxFalls == 1

(* ---------------- input sets ------------------------------------------- *)

\* rows of the ropes table: rope_id |-> purchase_date
ropes == [r \in {"R1", "R2"} |-> IF r = "R1" THEN 0 ELSE 1]

Ropes == DOMAIN ropes

\* rope ids a URL can carry: the known ropes and one that is not in the table
RopeIds == Ropes \cup {"R0"}

\* dates a form can carry
InputDates == {0, 1}

\* days the clock is observed at: the input dates and the day one
\* re-inspection interval after the first of them (179 days after the second)
Days == InputDates \cup {REINSPECTION_INTERVAL_DAYS}

\* request.form["verdict"] is a free string; "unknown" stands for every
\* value outside the known set
Verdicts == {"pass", "fail", "unknown"}

KnownVerdicts == {"pass", "fail"}

\* request.form["fall_type"] is a free string; "slip" stands for every
\* value outside the known set
FallTypes == {"major", "minor", "slip"}

KnownFallTypes == {"major", "minor"}

Methods == {"GET", "POST"}

NoInspection == [inspection_date |-> -1, verdict |-> "None"]

InspectionRows == [rope_id : Ropes, inspection_date : InputDates, verdict : Verdicts]

FallRows == [rope_id : Ropes, fall_date : InputDates, fall_type : FallTypes]

(* ---------------- compute_status ---------------------------------------- *)

\* variant of LatestInspection: ORDER BY inspection_date ASC
LatestInspectionAsc(ilogs, r) ==
    {i \in BagToSet(ilogs) :
        /\ i.rope_id = r
        /\ \A j \in BagToSet(ilogs) :
              j.rope_id = r => j.inspection_date >= i.inspection_date}

\* SELECT ... FROM inspection_logs WHERE rope_id = r ORDER BY inspection_date
\* DESC LIMIT 1: the rows the store may return.  Among rows that share the
\* greatest date the order is not determined, so each of them may come first.
LatestInspection(ilogs, r) ==
    {i \in BagToSet(ilogs) :
        /\ i.rope_id = r
        /\ \A j \in BagToSet(ilogs) :
              j.rope_id = r => j.inspection_date <= i.inspection_date}

\* cur.fetchone(): a row, or None when the rope has no inspection
FetchInspection(ilogs, r) ==
    IF LatestInspection(ilogs, r) = {}
    THEN {NoInspection}
    ELSE {[inspection_date |-> i.inspection_date, verdict |-> i.verdict] :
             i \in LatestInspection(ilogs, r)}

BaseDate(inspection, purchase_date) ==
    IF inspection # NoInspection THEN inspection.inspection_date ELSE purchase_date

\* variant of FallsSince: fall_date > base_date
FallsSinceExclusive(flogs, r, base_date) ==
    LET hit == {f \in BagToSet(flogs) : f.rope_id = r /\ f.fall_date > base_date}
    IN  [f \in hit |-> flogs[f]]

\* SELECT fall_type FROM fall_logs WHERE rope_id = r AND fall_date >= base:
\* the bag of the rows returned
FallsSince(flogs, r, base_date) ==
    LET hit == {f \in BagToSet(flogs) : f.rope_id = r /\ f.fall_date >= base_date}
    IN  [f \in hit |-> flogs[f]]

\* sum(1 for f in falls if f[0] == type)
CountType(falls, type) ==
    LET hit == {f \in BagToSet(falls) : f.fall_type = type}
    IN  BagCardinality([f \in hit |-> falls[f]])

\* variants of Decide: without the fail override, with minor > 3, with
\* today > next_due
DecideNoFailOverride(verdict, base_date, major, minor, now) ==
    IF major >= MAJOR_FALL_LIMIT \/ minor >= MINOR_FALL_LIMIT THEN "INSPECTION DUE"
    ELSE IF now >= base_date + REINSPECTION_INTERVAL_DAYS THEN "INSPECTION DUE"
    ELSE "ACTIVE"

DecideMinorOffByOne(verdict, base_date, major, minor, now) ==
    IF verdict = "fail" THEN "RETIRED"
    ELSE IF major >= MAJOR_FALL_LIMIT \/ minor > MINOR_FALL_LIMIT THEN "INSPECTION DUE"
    ELSE IF now >= base_date + REINSPECTION_INTERVAL_DAYS THEN "INSPECTION DUE"
    ELSE "ACTIVE"

DecideTimeExclusive(verdict, base_date, major, minor, now) ==
    IF verdict = "fail" THEN "RETIRED"
    ELSE IF major >= MAJOR_FALL_LIMIT \/ minor >= MINOR_FALL_LIMIT THEN "INSPECTION DUE"
    ELSE IF now > base_date + REINSPECTION_INTERVAL_DAYS THEN "INSPECTION DUE"
    ELSE "ACTIVE"

\* the rules of compute_status once the rows are fetched
Decide(verdict, base_date, major, minor, now) ==
    IF verdict = "fail" THEN "RETIRED"
    ELSE IF major >= MAJOR_FALL_LIMIT \/ minor >= MINOR_FALL_LIMIT THEN "INSPECTION DUE"
    ELSE IF now >= base_date + REINSPECTION_INTERVAL_DAYS THEN "INSPECTION DUE"
    ELSE "ACTIVE"

\* compute_status when the store returns `inspection` to the first query and
\* nothing is committed between the two queries
compute_status(ilogs, flogs, now, rope_id, purchase_date, inspection) ==
    LET base_date == BaseDate(inspection, purchase_date)
        falls     == FallsSince(flogs, rope_id, base_date)
    IN  Decide(inspection.verdict, base_date,
               CountType(falls, "major"), CountType(falls, "minor"), now)

\* every status compute_status can return in a state of the store
StatusOutcomes(ilogs, flogs, now, rope_id) ==
    {compute_status(ilogs, flogs, now, rope_id, ropes[rope_id], i) :
        i \in FetchInspection(ilogs, rope_id)}

(* ---------------- rope_details ------------------------------------------ *)

\* variant of StatusColor: the due status spelt with an underscore
StatusColorDueGray(status) ==
    IF status = "ACTIVE" THEN "green"
    ELSE IF status = "INSPECTION_DUE" THEN "orange"
    ELSE IF status = "RETIRED" THEN "red"
    ELSE "gray"

\* the if/elif chain of rope_details
StatusColor(status) ==
    IF status = "ACTIVE" THEN "green"
    ELSE IF status = "INSPECTION DUE" THEN "orange"
    ELSE IF status = "RETIRED" THEN "red"
    ELSE "gray"

\* what a request leaves behind: the handler's answer and, for a rope page,
\* the row compute_status fetched and the status it returned
Page(rope_id, inspection, status) ==
    [kind |-> "page", rope_id |-> rope_id, inspection |-> inspection,
     status |-> status, status_color |-> StatusColor(status)]

Plain(kind) ==
    [kind |-> kind, rope_id |-> "", inspection |-> NoInspection,
     status |-> "", status_color |-> ""]

\* GET /rope/<rope_id>
rope_details(rope_id) ==
    /\ IF rope_id \notin Ropes
       THEN served' = Plain("not found")
       ELSE \E inspection \in FetchInspection(inspection_logs, rope_id) :
               served' = Page(rope_id, inspection,
                              compute_status(inspection_logs, fall_logs, today,
                                             rope_id, ropes[rope_id], inspection))
    /\ UNCHANGED <<today, inspection_logs, fall_logs>>

(* ---------------- add_inspection, add_fall ------------------------------ *)

\* requires_auth: the wrapped handler runs only for the admin credentials
requires_auth(authorized, handler) ==
    IF authorized THEN handler
    ELSE /\ served' = Plain("unauthorized")
         /\ UNCHANGED <<today, inspection_logs, fall_logs>>

RenderForm ==
    /\ served' = Plain("form")
    /\ UNCHANGED <<today, inspection_logs, fall_logs>>

\* variant of InsertInspection: no test of the date
InsertInspectionNoDateCheck(rope_id, inspection_date, verdict) ==
    /\ inspection_logs' = inspection_logs (+)
          SetToBag({[rope_id |-> rope_id, inspection_date |-> inspection_date,
                     verdict |-> verdict]})
    /\ served' = Plain("redirect")
    /\ UNCHANGED <<today, fall_logs>>

\* the POST branch of add_inspection
InsertInspection(rope_id, inspection_date, verdict) ==
    IF inspection_date > today
    THEN /\ served' = Plain("error")
         /\ UNCHANGED <<today, inspection_logs, fall_logs>>
    ELSE /\ inspection_logs' = inspection_logs (+)
               SetToBag({[rope_id |-> rope_id, inspection_date |-> inspection_date,
                          verdict |-> verdict]})
         /\ served' = Plain("redirect")
         /\ UNCHANGED <<today, fall_logs>>

add_inspection(authorized, method, verdicts) ==
    requires_auth(authorized,
        IF method = "POST"
        THEN \E rope_id \in Ropes, inspection_date \in InputDates, verdict \in verdicts :
                InsertInspection(rope_id, inspection_date, verdict)
        ELSE RenderForm)

\* the POST branch of add_fall
InsertFall(rope_id, fall_date, fall_type) ==
    IF fall_date > today
    THEN /\ served' = Plain("error")
         /\ UNCHANGED <<today, inspection_logs, fall_logs>>
    ELSE /\ fall_logs' = fall_logs (+)
               SetToBag({[rope_id |-> rope_id, fall_date |-> fall_date,
                          fall_type |-> fall_type]})
         /\ served' = Plain("redirect")
         /\ UNCHANGED <<today, inspection_logs>>

add_fall(authorized, method, fall_types) ==
    requires_auth(authorized,
        IF method = "POST"
        THEN \E rope_id \in Ropes, fall_date \in InputDates, fall_type \in fall_types :
                InsertFall(rope_id, fall_date, fall_type)
        ELSE RenderForm)

(* ---------------- the clock --------------------------------------------- *)

\* datetime.today().date() moves forward between requests; `served` holds
\* what was served on the current day
Tick ==
    /\ \E d \in Days : d > today /\ today' = d
    /\ served' = Plain("none")
    /\ UNCHANGED <<inspection_logs, fall_logs>>

(* ---------------- Spec: one request at a time, known form values -------- *)

Idle == [pc |-> "idle"]

Init ==
    /\ today = 0
    /\ inspection_logs = EmptyBag
    /\ fall_logs = EmptyBag
    /\ served = Plain("none")
    /\ cs = Idle
    /\ snapshots = {}

RopeDetailsReq ==
    /\ \E rope_id \in RopeIds : rope_details(rope_id)
    /\ UNCHANGED <<cs, snapshots>>

AddInspectionReq ==
    /\ BagCardinality(inspection_logs) < MaxInspections
    /\ \E authorized \in BOOLEAN, method \in Methods :
          add_inspection(authorized, method, KnownVerdicts)
    /\ UNCHANGED <<cs, snapshots>>

AddFallReq ==
    /\ BagCardinality(fall_logs) < MaxFalls
    /\ \E authorized \in BOOLEAN, method \in Methods :
          add_fall(authorized, method, KnownFallTypes)
    /\ UNCHANGED <<cs, snapshots>>

ClockTick ==
    /\ Tick
    /\ UNCHANGED <<cs, snapshots>>

Next ==
    \/ RopeDetailsReq
    \/ AddInspectionReq
    \/ AddFallReq
    \/ ClockTick

Spec == Init /\ [][Next]_vars

(* ---------------- RawSpec: one request at a time, any form value -------- *)

RawAddInspectionReq ==
    /\ BagCardinality(inspection_logs) < MaxInspections
    /\ \E authorized \in BOOLEAN, method \in Methods :
          add_inspection(authorized, method, Verdicts)
    /\ UNCHANGED <<cs, snapshots>>

RawAddFallReq ==
    /\ BagCardinality(fall_logs) < MaxFalls
    /\ \E authorized \in BOOLEAN, method \in Methods :
          add_fall(authorized, method, FallTypes)
    /\ UNCHANGED <<cs, snapshots>>

RawNext ==
    \/ RopeDetailsReq
    \/ RawAddInspectionReq
    \/ RawAddFallReq
    \/ ClockTick

RawSpec == Init /\ [][RawNext]_vars

(* ---------------- ConcSpec: an evaluation interleaved with commits ------ *)

\* `cs` is the frame of the running compute_status call.  `snapshots` is a
\* history variable: the statuses the store's content stood for at the
\* instants since the call began.
Observe(frame) ==
    IF frame.pc = "fetched"
    THEN snapshots' = snapshots \cup
            StatusOutcomes(inspection_logs', fall_logs', today', frame.rope_id)
    ELSE snapshots' = snapshots

\* rope_details up to the return of the first query of compute_status; a
\* failing verdict returns at once
CsFetchInspection ==
    /\ cs.pc # "fetched"
    /\ \E rope_id \in Ropes :
         \E inspection \in FetchInspection(inspection_logs, rope_id) :
            /\ snapshots' = StatusOutcomes(inspection_logs, fall_logs, today, rope_id)
            /\ IF inspection.verdict = "fail"
               THEN /\ cs' = [pc |-> "done", rope_id |-> rope_id,
                              inspection |-> inspection, status |-> "RETIRED"]
                    /\ served' = Page(rope_id, inspection, "RETIRED")
               ELSE /\ cs' = [pc |-> "fetched", rope_id |-> rope_id,
                              inspection |-> inspection, status |-> ""]
                    /\ served' = served
    /\ UNCHANGED <<today, inspection_logs, fall_logs>>

\* the second query of compute_status and the rest of rope_details
CsFetchFalls ==
    /\ cs.pc = "fetched"
    /\ LET base_date == BaseDate(cs.inspection, ropes[cs.rope_id])
           falls     == FallsSince(fall_logs, cs.rope_id, base_date)
           status    == Decide(cs.inspection.verdict, base_date,
                               CountType(falls, "major"), CountType(falls, "minor"),
                               today)
       IN  /\ cs' = [cs EXCEPT !.pc = "done", !.status = status]
           /\ served' = Page(cs.rope_id, cs.inspection, status)
    /\ UNCHANGED <<today, inspection_logs, fall_logs, snapshots>>

ConcAddInspection ==
    /\ BagCardinality(inspection_logs) < ConcMaxInspections
    /\ add_inspection(TRUE, "POST", KnownVerdicts)
    /\ Observe(cs)
    /\ UNCHANGED cs

ConcAddFall ==
    /\ BagCardinality(fall_logs) < ConcMaxFalls
    /\ add_fall(TRUE, "POST", KnownFallTypes)
    /\ Observe(cs)
    /\ UNCHANGED cs

ConcTick ==
    /\ Tick
    /\ Observe(cs)
    /\ UNCHANGED cs

ConcNext ==
    \/ CsFetchInspection
    \/ CsFetchFalls
    \/ ConcAddInspection
    \/ ConcAddFall
    \/ ConcTick

ConcSpec == Init /\ [][ConcNext]_vars

(* ======================= properties ====================================== *)

\* what the properties read off the state, stated on the tables themselves

RECURSIVE SumCopies(_, _)
SumCopies(B, S) ==
    IF S = {} THEN 0
    ELSE LET x == CHOOSE y \in S : TRUE
         IN  CopiesIn(x, B) + SumCopies(B, S \ {x})

\* the rope's falls of one type dated on or after `base`
Counted(r, base, type) ==
    SumCopies(fall_logs, {f \in FallRows : /\ f.rope_id = r
                                           /\ f.fall_date >= base
                                           /\ f.fall_type = type})

InspectionsOf(r) == {i \in BagToSet(inspection_logs) : i.rope_id = r}

\* the served page and the base date of its evaluation
IsPage == served.kind = "page"

ServedBase ==
    IF InspectionsOf(served.rope_id) = {}
    THEN ropes[served.rope_id]
    ELSE served.inspection.inspection_date

ServedMajor == Counted(served.rope_id, ServedBase, "major")

ServedMinor == Counted(served.rope_id, ServedBase, "minor")

FallRuleFires == ServedMajor >= 1 \/ ServedMinor >= 3

\* the row the evaluation fetched is one of the rope's rows of greatest date,
\* or no row when the rope has none
ServedIsLatest ==
    IF InspectionsOf(served.rope_id) = {}
    THEN served.inspection = NoInspection
    ELSE \E i \in InspectionsOf(served.rope_id) :
            /\ served.inspection = [inspection_date |-> i.inspection_date,
                                    verdict |-> i.verdict]
            /\ \A j \in InspectionsOf(served.rope_id) :
                  j.inspection_date <= i.inspection_date

\* every inspection of greatest date of the rope failed
AllLatestFail(ilogs, r) ==
    /\ \E i \in BagToSet(ilogs) : i.rope_id = r
    /\ \A i \in BagToSet(ilogs) :
          (/\ i.rope_id = r
           /\ \A j \in BagToSet(ilogs) :
                 j.rope_id = r => j.inspection_date <= i.inspection_date)
          => i.verdict = "fail"

\* C1: a page whose evaluation fetched a failing inspection shows RETIRED,
\* whatever the falls and the day; and while every latest inspection of a
\* rope is a failing one, no evaluation of the rope can return anything but
\* RETIRED, so falls and days added to such a state leave it RETIRED.
C1_FailOverride ==
    /\ (IsPage /\ served.inspection.verdict = "fail") => served.status = "RETIRED"
    /\ \A r \in Ropes :
          AllLatestFail(inspection_logs, r)
          => StatusOutcomes(inspection_logs, fall_logs, today, r) = {"RETIRED"}

\* a rope retired by its inspection is served RETIRED although it has a
\* major fall dated on or after that inspection and the interval has passed
C1_Witness ==
    /\ IsPage
    /\ served.inspection.verdict = "fail"
    /\ served.status = "RETIRED"
    /\ ServedMajor >= 1
    /\ today >= ServedBase + REINSPECTION_INTERVAL_DAYS

\* C2: when the fetched inspection is absent or did not fail, a major fall
\* or three minor falls on or after the base date give INSPECTION DUE on any
\* day, and exactly two minor falls with no major fall give ACTIVE before
\* the 180th day after the base date.
C2_FallThreshold ==
    (IsPage /\ served.inspection.verdict # "fail") =>
        /\ FallRuleFires => served.status = "INSPECTION DUE"
        /\ (/\ ServedMinor = 2
            /\ ServedMajor = 0
            /\ today < ServedBase + 180) => served.status = "ACTIVE"

\* exactly three minor falls, no major fall, time remaining: INSPECTION DUE
C2_Witness ==
    /\ IsPage
    /\ served.inspection.verdict # "fail"
    /\ ServedMinor = 3
    /\ ServedMajor = 0
    /\ today < ServedBase + 180
    /\ served.status = "INSPECTION DUE"

\* C3: when the fetched inspection did not fail and the fall rule does not
\* fire, the page shows INSPECTION DUE exactly when today is at least 180
\* days after the base date, and ACTIVE otherwise.
C3_TimeBoundary ==
    (IsPage /\ served.inspection.verdict # "fail" /\ ~FallRuleFires) =>
        /\ today >= ServedBase + 180 => served.status = "INSPECTION DUE"
        /\ today <  ServedBase + 180 => served.status = "ACTIVE"

\* the 180th day itself: INSPECTION DUE by the time rule alone
C3_Witness ==
    /\ IsPage
    /\ served.inspection.verdict # "fail"
    /\ ~FallRuleFires
    /\ today = ServedBase + 180
    /\ served.status = "INSPECTION DUE"

\* the status the rules give for a base date and the rope's falls since it
RuleStatus(verdict, r, base) ==
    IF verdict = "fail" THEN "RETIRED"
    ELSE IF Counted(r, base, "major") >= 1 \/ Counted(r, base, "minor") >= 3
         THEN "INSPECTION DUE"
    ELSE IF today >= base + 180 THEN "INSPECTION DUE"
    ELSE "ACTIVE"

\* C4: the evaluation fetches a latest inspection of the rope (none when it
\* has none), takes that inspection's date, or else the purchase date, as
\* base date, and the status shown is the one the rules give for the
\* rope's own falls dated on or after the base date: a fall on the base
\* date counts, an earlier fall or a fall of another rope does not.
C4_BaseDateWindow ==
    IsPage =>
        /\ ServedIsLatest
        /\ served.status =
              RuleStatus(served.inspection.verdict, served.rope_id,
                         IF InspectionsOf(served.rope_id) = {}
                         THEN ropes[served.rope_id]
                         ELSE served.inspection.inspection_date)

\* an inspected rope is due because of one major fall dated exactly on the
\* inspection date, while it also has a fall before that date and another
\* rope has a fall
C4_Witness ==
    /\ IsPage
    /\ served.inspection # NoInspection
    /\ served.inspection.verdict # "fail"
    /\ served.status = "INSPECTION DUE"
    /\ today < ServedBase + 180
    /\ ServedMajor = 1
    /\ ServedMinor = 0
    /\ \E f \in BagToSet(fall_logs) :
          /\ f.rope_id = served.rope_id
          /\ f.fall_type = "major"
          /\ f.fall_date = ServedBase
    /\ \E f \in BagToSet(fall_logs) :
          f.rope_id = served.rope_id /\ f.fall_date < ServedBase
    /\ \E f \in BagToSet(fall_logs) : f.rope_id # served.rope_id

\* the step appends the inspection row n
Appends(n) == CopiesIn(n, inspection_logs') > CopiesIn(n, inspection_logs)

\* the status the rules give after the step for a rope whose base date is
\* `base` and whose latest verdict is not a failing one
StatusAfter(r, base) ==
    LET major == SumCopies(fall_logs', {f \in FallRows : /\ f.rope_id = r
                                                          /\ f.fall_date >= base
                                                          /\ f.fall_type = "major"})
        minor == SumCopies(fall_logs', {f \in FallRows : /\ f.rope_id = r
                                                          /\ f.fall_date >= base
                                                          /\ f.fall_type = "minor"})
    IN  IF major = 0 /\ minor < 3 /\ today' < base + 180
        THEN "ACTIVE" ELSE "INSPECTION DUE"

\* C5 as claimed: once add_inspection has appended an inspection that did
\* not fail to a rope retired by its inspections, every evaluation of the
\* rope returns ACTIVE or INSPECTION DUE as the rules give from the new
\* inspection's date.  (Stated for a new inspection dated unlike every
\* inspection the rope has, so that the store's order among equal dates
\* plays no part.)
C5_ResetAnyDate ==
    [][\A n \in BagToSet(inspection_logs') :
          (/\ Appends(n)
           /\ n.verdict # "fail"
           /\ AllLatestFail(inspection_logs, n.rope_id)
           /\ \A j \in BagToSet(inspection_logs) :
                 j.rope_id = n.rope_id => j.inspection_date # n.inspection_date)
          => StatusOutcomes(inspection_logs', fall_logs', today', n.rope_id)
                = {StatusAfter(n.rope_id, n.inspection_date)}]_vars

\* C5 as amended: the same, when the new inspection is dated after every
\* inspection the rope already has.
C5_ResetLaterDate ==
    [][\A n \in BagToSet(inspection_logs') :
          (/\ Appends(n)
           /\ n.verdict # "fail"
           /\ AllLatestFail(inspection_logs, n.rope_id)
           /\ \A j \in BagToSet(inspection_logs) :
                 j.rope_id = n.rope_id => j.inspection_date < n.inspection_date)
          => StatusOutcomes(inspection_logs', fall_logs', today', n.rope_id)
                = {StatusAfter(n.rope_id, n.inspection_date)}]_vars

\* a rope with a failing inspection and a later one that did not fail is
\* served ACTIVE
C5_Witness ==
    /\ IsPage
    /\ served.status = "ACTIVE"
    /\ served.inspection.verdict = "pass"
    /\ \E i \in InspectionsOf(served.rope_id) :
          /\ i.verdict = "fail"
          /\ i.inspection_date < served.inspection.inspection_date

\* C6: no page shows a status computed over a record whose fall type or
\* verdict is outside the known set.
C6_InvalidFailsFast ==
    IsPage =>
        /\ served.inspection.verdict \in KnownVerdicts \cup {"None"}
        /\ \A f \in BagToSet(fall_logs) :
              (f.rope_id = served.rope_id /\ f.fall_date >= ServedBase)
              => f.fall_type \in KnownFallTypes

\* C7: the status a page shows is the only status an evaluation of the same
\* rope on the same day and the same logs can return.
C7_Deterministic ==
    IsPage =>
        StatusOutcomes(inspection_logs, fall_logs, today, served.rope_id)
           = {served.status}

\* C8: the status an evaluation returns is one the logs stood for at some
\* instant between its first query and its return.
C8_SnapshotConsistent ==
    cs.pc = "done" => cs.status \in snapshots

\* C9: every page shows one of the three statuses with its own colour, and
\* never the fallback colour.
C9_TotalMapping ==
    IsPage =>
        /\ served.status \in {"ACTIVE", "INSPECTION DUE", "RETIRED"}
        /\ served.status = "ACTIVE" => served.status_color = "green"
        /\ served.status = "INSPECTION DUE" => served.status_color = "orange"
        /\ served.status = "RETIRED" => served.status_color = "red"
        /\ served.status_color # "gray"

C9_Witness ==
    /\ IsPage
    /\ served.status = "INSPECTION DUE"
    /\ served.status_color = "orange"

\* the table gains one row and loses none
GainsOneRow(old, new) ==
    /\ old \sqsubseteq new
    /\ BagCardinality(new) = BagCardinality(old) + 1

\* a step either leaves both tables as they are and answers with something
\* other than the redirect of an accepted call, or answers with that
\* redirect and adds one row to one table; a call carrying a date after
\* today is of the first kind and its answer is the error
AppendOnlyStep ==
    /\ today' >= today
    /\ IF inspection_logs' = inspection_logs /\ fall_logs' = fall_logs
       THEN served'.kind # "redirect"
       ELSE /\ served'.kind = "redirect"
            /\ \/ GainsOneRow(inspection_logs, inspection_logs') /\ fall_logs' = fall_logs
               \/ GainsOneRow(fall_logs, fall_logs') /\ inspection_logs' = inspection_logs
    /\ served'.kind # "error" =>
          \A r \in Ropes, d \in {e \in InputDates : e > today} :
             /\ \A v \in Verdicts : ~InsertInspection(r, d, v)
             /\ \A t \in FallTypes : ~InsertFall(r, d, t)

\* C10: a date after today is answered with an error and changes no log, an
\* accepted call adds exactly one row, no step changes or removes a row,
\* and no log ever holds a row dated after today.
C10_NoFutureAppendOnly ==
    /\ [](/\ \A i \in BagToSet(inspection_logs) : i.inspection_date <= today
          /\ \A f \in BagToSet(fall_logs) : f.fall_date <= today)
    /\ [][AppendOnlyStep]_vars

\* a request carrying a future date was answered with an error while the
\* logs hold rows
C10_Witness ==
    /\ served.kind = "error"
    /\ BagCardinality(inspection_logs) > 0
    /\ BagCardinality(fall_logs) > 0
====
